---- MODULE Spec2Model ----
(***************************************************************************)
(* pi-dashboard: the in-memory metrics history (SystemMetricsHistory in    *)
(* models.py), the periodic sampler task and the history query handler     *)
(* (PiDashboardServer in server.py).                                       *)
(*                                                                         *)
(* Two specifications share the variables:                                 *)
(*   StoreSpec  the three methods of SystemMetricsHistory called in any    *)
(*              order with arguments drawn from small sets;                *)
(*   Spec       the server: lifespan, the sampler coroutine, the clock and *)
(*              the /system/metrics/history handler;                       *)
(*   CacheSpec  sequential calls of a function decorated with ttl_cache    *)
(*              (weather_handler.py);                                      *)
(*   NotesSpec  NotesHandler over NotesCollection and notes.json           *)
(*   ContainerSpec  ContainerHandler over the Docker daemon                *)
(*   FairSpec   Spec with the event loop running every ready task          *)
(*   ConcurrentCacheSpec  ttl_cache with overlapping calls                 *)
(*              (notes_handler.py, models.py).                             *)
(***************************************************************************)
EXTENDS Integers, Sequences, FiniteSets, TLC

VARIABLES
    history,          \* SystemMetricsHistory.history: list of entries
    nextId,           \* identity of the next SystemMetricsHistoryEntry built
    call,             \* StoreSpec: the last method call, its arguments and result
    clock,            \* Spec: the wall clock, Unix seconds
    config,           \* Spec: config.metrics (collection_interval, max_history_duration)
    lifespan,         \* Spec: position of PiDashboardServer.lifespan
    task,             \* Spec: position of the _collect_metrics_periodically task
    wakeAt,           \* Spec: clock value at which the pending asyncio.sleep ends
    mustCancel,       \* Spec: task.cancel() was called and is not yet delivered
    lastCycle,        \* Spec: what the last sampler cycle did
    lastQuery,        \* Spec: what the last get_system_metrics_history call did
    cache_data,       \* CacheSpec: the decorator's cache_data dict (result, timestamp)
    minutes,          \* CacheSpec: the decorator's argument
    func_calls,       \* CacheSpec: number of invocations of the wrapped function
    wrapper,          \* CacheSpec: the wrapper call in progress or last finished
    lastFetch,        \* CacheSpec: the last call whose fetch returned (time, result)
    calls,            \* ConcurrentCacheSpec: the wrapper call of each concurrent caller
    notes,            \* NotesSpec: NotesHandler.collection.notes
    notes_file,       \* NotesSpec: the collection stored in notes.json
    next_uuid,        \* NotesSpec: the next value of uuid4()
    write_failures,   \* NotesSpec: number of _write_notes calls that failed
    noteCall,         \* NotesSpec: the last NotesHandler call, its arguments and result
    client,           \* ContainerSpec: ContainerHandler.client is a DockerClient (not None)
    containers,       \* ContainerSpec: the daemon's container of each name
    next_short_id,    \* ContainerSpec: short_id of the next container the daemon creates
    contCall          \* ContainerSpec: the last ContainerHandler call and its response

storeVars == <<history, nextId, call>>
serverVars == <<clock, config, lifespan, task, wakeAt, mustCancel, lastCycle, lastQuery>>
cacheVars == <<cache_data, minutes, func_calls, wrapper, lastFetch, calls>>
notesVars == <<notes, notes_file, next_uuid, write_failures, noteCall>>
containerVars == <<client, containers, next_short_id, contCall>>
restVars == <<cacheVars, notesVars, containerVars>>
vars == <<history, nextId, call, clock, config, lifespan, task, wakeAt, mustCancel,
          lastCycle, lastQuery, cache_data, minutes, func_calls, wrapper, lastFetch,
          calls,
          notes, notes_file, next_uuid, write_failures, noteCall,
          client, containers, next_short_id, contCall>>

(***************************************************************************)
(* Bounds of the model.                                                    *)
(***************************************************************************)
MaxAdds == 3          \* StoreSpec: add_entry calls on a store that starts empty
MaxTime == 2          \* StoreSpec: small timestamps and arguments are 0..MaxTime
ClockStep == 30       \* Spec: the clock is observed every ClockStep seconds
MaxClock == 180       \* Spec: the clock stops advancing here
MaxFuncCalls == 4     \* CacheSpec: invocations of the wrapped function
MaxNotes == 2         \* NotesSpec: notes created (values of uuid4)
MaxWriteFailures == 1 \* NotesSpec: calls of _write_notes that fail
MaxContainers == 2    \* ContainerSpec: container names known to the daemon
MaxNewContainers == 2 \* ContainerSpec: containers created by containers.run

(***************************************************************************)
(* SystemMetricsHistoryEntry: the metrics payload is abstracted to the     *)
(* identity of the entry (the order in which entries were built).          *)
(***************************************************************************)
SystemMetricsHistoryEntry(id, timestamp) == [id |-> id, timestamp |-> timestamp]

\* A filter that builds its result with insert(0, entry): survivors come out reversed.
RECURSIVE EntriesFromPrepending(_, _)
EntriesFromPrepending(entries, cutoff_time) ==
    IF entries = <<>> THEN <<>>
    ELSE LET entry == Head(entries)
             rest == EntriesFromPrepending(Tail(entries), cutoff_time)
         IN  IF entry.timestamp >= cutoff_time THEN rest \o <<entry>> ELSE rest

\* The list comprehension [entry for entry in history if entry.timestamp >= cutoff_time]:
\* one pass over the list, front to back, appending the entries that pass.
RECURSIVE EntriesFrom(_, _)
EntriesFrom(entries, cutoff_time) ==
    IF entries = <<>> THEN <<>>
    ELSE LET entry == Head(entries)
             rest == EntriesFrom(Tail(entries), cutoff_time)
         IN  IF entry.timestamp >= cutoff_time THEN <<entry>> \o rest ELSE rest

\* An add_entry that inserts at the front of the list (insert(0, entry)).
add_entry_front(entries, entry) == <<entry>> \o entries

\* SystemMetricsHistory.add_entry: self.history.append(entry)
add_entry(entries, entry) == Append(entries, entry)

\* A cleanup that deletes from the list while iterating over it: after each
\* removal the iteration skips the entry that moved into the removed slot.
RECURSIVE RemoveWhileIterating(_, _)
RemoveWhileIterating(entries, cutoff_time) ==
    IF entries = <<>> THEN <<>>
    ELSE IF Head(entries).timestamp >= cutoff_time
         THEN <<Head(entries)>> \o RemoveWhileIterating(Tail(entries), cutoff_time)
         ELSE IF Len(entries) = 1 THEN <<>>
              ELSE <<entries[2]>> \o RemoveWhileIterating(Tail(Tail(entries)), cutoff_time)

cleanup_old_entries_skipping(entries, max_age_seconds, current_time) ==
    RemoveWhileIterating(entries, current_time - max_age_seconds)

\* SystemMetricsHistory.cleanup_old_entries: the new value of self.history
cleanup_old_entries(entries, max_age_seconds, current_time) ==
    LET cutoff_time == current_time - max_age_seconds
    IN  EntriesFrom(entries, cutoff_time)

\* A query with an exclusive boundary (> instead of >=).
get_entries_since_exclusive(entries, seconds_ago, current_time) ==
    EntriesFrom(entries, current_time - seconds_ago + 1)

\* A query whose cutoff has the wrong sign (current_time + seconds_ago).
get_entries_since_plus(entries, seconds_ago, current_time) ==
    EntriesFrom(entries, current_time + seconds_ago)

\* SystemMetricsHistory.get_entries_since: the returned list
get_entries_since(entries, seconds_ago, current_time) ==
    LET cutoff_time == current_time - seconds_ago
    IN  EntriesFrom(entries, cutoff_time)

\* A get_entries_since that assigns the filtered list to self.history, as
\* cleanup_old_entries does.
history_after_get_entries_since_assigning(entries, seconds_ago, current_time) ==
    EntriesFrom(entries, current_time - seconds_ago)

\* SystemMetricsHistory.get_entries_since: self.history after the call; the
\* method builds a new list and assigns nothing.
history_after_get_entries_since(entries, seconds_ago, current_time) == entries

(***************************************************************************)
(* StoreSpec: SystemMetricsHistory alone.                                  *)
(***************************************************************************)
\* The fixture of tests/conftest.py shape, with the timestamps of the spec's
\* scenarios: ten entries 1000, 1060, ..., 1540.
ScenarioHistory == [i \in 1..10 |-> SystemMetricsHistoryEntry(i, 1000 + 60 * (i - 1))]

Timestamps == 0..MaxTime
Ages == (-1..MaxTime) \cup {300}
Nows == (0..MaxTime) \cup {1540}

NoQueried == [same |-> FALSE, result |-> <<>>]
NoCall == [op |-> "none", a |-> 0, now |-> 0, pre |-> <<>>, result |-> <<>>,
           twice |-> FALSE, prevRemoved |-> 0, queried |-> NoQueried]
NoCycle == [outcome |-> "none", now |-> 0, pre |-> <<>>, failsBefore |-> 0, prevWake |-> 0,
            outcomes |-> <<>>, pruned |-> 0]
NoQuery == [status |-> "none", last_n_seconds |-> 0, window |-> 0, now |-> 0, result |-> <<>>]
NoConfig == [collection_interval |-> 0, max_history_duration |-> 0]

\* Python's None, kept apart from every result (>= 1) and time (>= 0).
None == -1

NoCache == [result |-> None, timestamp |-> None]
NoWrapper == [state |-> "idle", now |-> 0, invoked |-> FALSE, value |-> None,
              age |-> None, cached |-> None, self |-> None, source |-> None]
NoFetch == [at |-> None, result |-> None, self |-> None]

CacheUnused ==
    /\ cache_data = NoCache
    /\ minutes = 0
    /\ func_calls = 0
    /\ wrapper = NoWrapper
    /\ lastFetch = NoFetch
    /\ calls = <<>>

\* The value None as a Note | None result.
NoNote == [id |-> None, title |-> None, content |-> None, created_at |-> None,
           updated_at |-> None]
NoNoteCall == [op |-> "none", note_id |-> None, title |-> None, content |-> None,
               current_timestamp |-> None, pre |-> <<>>, returned |-> NoNote,
               success |-> FALSE, wrote |-> FALSE, raised |-> FALSE,
               fs |-> <<>>]

NotesUnused ==
    /\ notes = <<>>
    /\ notes_file = <<>>
    /\ next_uuid = 1
    /\ write_failures = 0
    /\ noteCall = NoNoteCall

\* The value None as a container, a failure that does not happen, and the
\* call record before any ContainerHandler call.
NoContainer == [short_id |-> None, status |-> "absent", tags |-> FALSE]
NoFailure == [step |-> "none", error |-> "none"]
NoContCall == [op |-> "none", container_id |-> None, steps |-> <<>>, failed |-> NoFailure,
               raised |-> FALSE, code |-> "none", message |-> "none",
               response_id |-> None, pre |-> <<>>]

ContainerUnused ==
    /\ client = FALSE
    /\ containers = <<>>
    /\ next_short_id = 0
    /\ contCall = NoContCall

RestUnused == CacheUnused /\ NotesUnused /\ ContainerUnused

ServerUnused ==
    /\ clock = 0
    /\ config = NoConfig
    /\ lifespan = "unused"
    /\ task = "unused"
    /\ wakeAt = 0
    /\ mustCancel = FALSE
    /\ lastCycle = NoCycle
    /\ lastQuery = NoQuery

StoreInit ==
    /\ history \in {<<>>, ScenarioHistory}
    /\ nextId = Len(history) + 1
    /\ call = NoCall
    /\ ServerUnused
    /\ RestUnused

StoreAddEntry ==
    \E t \in Timestamps :
        /\ nextId <= MaxAdds
        /\ history' = add_entry(history, SystemMetricsHistoryEntry(nextId, t))
        /\ nextId' = nextId + 1
        /\ call' = [op |-> "add_entry", a |-> 0, now |-> t, pre |-> history,
                    result |-> <<>>, twice |-> FALSE, prevRemoved |-> 0,
                    queried |-> NoQueried]
        /\ UNCHANGED <<serverVars, restVars>>

StoreCleanup ==
    \E max_age_seconds \in Ages, current_time \in Nows :
        /\ history' = cleanup_old_entries(history, max_age_seconds, current_time)
        /\ call' = [op |-> "cleanup_old_entries", a |-> max_age_seconds,
                    now |-> current_time, pre |-> history, result |-> <<>>,
                    twice |-> /\ call.op = "cleanup_old_entries"
                              /\ call.a = max_age_seconds
                              /\ call.now = current_time,
                    prevRemoved |-> IF call.op = "cleanup_old_entries"
                                    THEN Len(call.pre) - Len(history) ELSE 0,
                    queried |-> IF /\ call.op = "get_entries_since"
                                   /\ call.a = max_age_seconds
                                   /\ call.now = current_time
                                THEN [same |-> TRUE, result |-> call.result]
                                ELSE NoQueried]
        /\ UNCHANGED <<nextId, serverVars, restVars>>

StoreGetEntriesSince ==
    \E seconds_ago \in Ages, current_time \in Nows :
        /\ call' = [op |-> "get_entries_since", a |-> seconds_ago,
                    now |-> current_time, pre |-> history,
                    result |-> get_entries_since(history, seconds_ago, current_time),
                    twice |-> /\ call.op = "cleanup_old_entries"
                              /\ call.a = seconds_ago
                              /\ call.now = current_time,
                    prevRemoved |-> 0, queried |-> NoQueried]
        /\ history' = history_after_get_entries_since(history, seconds_ago, current_time)
        /\ UNCHANGED <<nextId, serverVars, restVars>>

StoreNext == StoreAddEntry \/ StoreCleanup \/ StoreGetEntriesSince

StoreSpec == StoreInit /\ [][StoreNext]_vars

(***************************************************************************)
(* Spec: PiDashboardServer. The asyncio event loop runs one coroutine step *)
(* at a time, so each action is the code between two suspension points.    *)
(***************************************************************************)
\* MetricsConfig values (collection_interval in [1, 60], max_history_duration
\* in [60, 3600]) and the last_n_seconds of requests (0 is malformed).
CollectionIntervals == {30, 60}
MaxHistoryDurations == {60, 1800}
RequestWindows == {0, 1, 60, 5000}

\* PiDashboardServer._current_timestamp_int: the clock variable is the value
\* this function reads; asyncio.sleep is measured on the same clock.
current_timestamp_int == clock

\* GetSystemMetricsHistoryRequest.model_validate: last_n_seconds has ge=1
ValidRequest(last_n_seconds) == last_n_seconds >= 1

\* A handler that passes the requested window on without clamping it.
WindowUnclamped(last_n_seconds, max_history_duration) == last_n_seconds

\* min(metrics_request.last_n_seconds, self.config.metrics.max_history_duration)
Window(last_n_seconds, max_history_duration) ==
    IF last_n_seconds <= max_history_duration THEN last_n_seconds ELSE max_history_duration

\* A cycle that appends its entry before it collects the metrics, so that a
\* failed collection leaves the entry behind.
CycleHistoryAppendFirst(entries, id, timestamp, max_history_duration, ok) ==
    add_entry(cleanup_old_entries(entries, max_history_duration, timestamp),
              SystemMetricsHistoryEntry(id, timestamp))

\* A cycle that never prunes.
CycleHistoryNoCleanup(entries, id, timestamp, max_history_duration, ok) ==
    IF ok THEN add_entry(entries, SystemMetricsHistoryEntry(id, timestamp)) ELSE entries

\* Lines 115-125 of one cycle: cleanup, collect, append. get_system_metrics
\* raising (ok = FALSE) leaves the try block after the cleanup.
CycleHistory(entries, id, timestamp, max_history_duration, ok) ==
    LET cleaned == cleanup_old_entries(entries, max_history_duration, timestamp)
    IN  IF ok THEN add_entry(cleaned, SystemMetricsHistoryEntry(id, timestamp))
        ELSE cleaned

\* An error handler that ends the loop instead of sleeping.
OnExceptionStop(now, collection_interval) ==
    [task |-> "finished", wakeAt |-> now]

\* except Exception: log, then await asyncio.sleep(collection_interval)
OnException(now, collection_interval) ==
    [task |-> "sleeping_after_error", wakeAt |-> now + collection_interval]

\* A loop in which the generic handler also catches CancelledError: the
\* cancellation is logged as an error and the loop sleeps and goes on.
OnCancelledSwallowed(position) ==
    IF position = "sleeping" THEN "sleeping_after_error" ELSE "cancelled"

\* CancelledError thrown into the task at its suspension point: inside the
\* try (line 128) it is caught and the loop breaks; in the error handler's
\* sleep (line 133), or before the coroutine has started, it propagates.
OnCancelled(position) ==
    IF position = "sleeping" THEN "finished" ELSE "cancelled"

Suspended == {"created", "sleeping", "sleeping_after_error"}

Init ==
    /\ history = <<>>
    /\ nextId = 1
    /\ call = NoCall
    /\ clock = 0
    /\ config \in [collection_interval : CollectionIntervals,
                   max_history_duration : MaxHistoryDurations]
    /\ lifespan = "init"
    /\ task = "not_started"
    /\ wakeAt = 0
    /\ mustCancel = FALSE
    /\ lastCycle = NoCycle
    /\ lastQuery = NoQuery
    /\ RestUnused

\* The clock advances.
Tick ==
    /\ clock + ClockStep <= MaxClock
    /\ clock' = clock + ClockStep
    /\ UNCHANGED <<storeVars, config, lifespan, task, wakeAt, mustCancel, lastCycle, lastQuery,
                   restVars>>

\* lifespan startup: _start_task creates the task, then the context yields.
LifespanStartup ==
    /\ lifespan = "init"
    /\ lifespan' = "running"
    /\ task' = "created"
    /\ UNCHANGED <<storeVars, clock, config, wakeAt, mustCancel, lastCycle, lastQuery, restVars>>

\* One cycle of _collect_metrics_periodically, from the loop top to the next
\* await: the task is resumed when it was just created or when its sleep is
\* over, and no cancellation is pending.
SamplerCycle ==
    \E ok \in BOOLEAN :
        LET timestamp == current_timestamp_int
            handler == OnException(clock, config.collection_interval)
        IN  /\ task \in Suspended
            /\ ~mustCancel
            /\ task = "created" \/ clock >= wakeAt
            /\ history' = CycleHistory(history, nextId, timestamp,
                                       config.max_history_duration, ok)
            /\ nextId' = IF ok THEN nextId + 1 ELSE nextId
            /\ task' = IF ok THEN "sleeping" ELSE handler.task
            /\ wakeAt' = IF ok THEN clock + config.collection_interval ELSE handler.wakeAt
            /\ lastCycle' = [outcome |-> IF ok THEN "ok" ELSE "fail",
                             now |-> timestamp,
                             pre |-> history,
                             failsBefore |-> IF lastCycle.outcome = "fail"
                                             THEN lastCycle.failsBefore + 1 ELSE 0,
                             prevWake |-> wakeAt,
                             outcomes |-> Append(lastCycle.outcomes, ok),
                             pruned |-> lastCycle.pruned + Len(history)
                                        - Len(cleanup_old_entries(history,
                                              config.max_history_duration, timestamp))]
            /\ UNCHANGED <<call, clock, config, lifespan, mustCancel, lastQuery, restVars>>

\* lifespan shutdown: _stop_task calls task.cancel(), then lifespan awaits the task.
LifespanShutdown ==
    /\ lifespan = "running"
    /\ lifespan' = "stopping"
    /\ mustCancel' = (task \in Suspended)
    /\ UNCHANGED <<storeVars, clock, config, task, wakeAt, lastCycle, lastQuery, restVars>>

\* The event loop resumes the cancelled task by throwing CancelledError into it.
SamplerCancelled ==
    /\ mustCancel
    /\ task \in Suspended
    /\ task' = OnCancelled(task)
    /\ mustCancel' = FALSE
    /\ UNCHANGED <<storeVars, clock, config, lifespan, wakeAt, lastCycle, lastQuery, restVars>>

\* await task: returns when the coroutine ended after its break, raises
\* CancelledError when the task ended cancelled.
AwaitTask(position) == IF position = "finished" THEN "returned" ELSE "CancelledError"

\* A lifespan that awaits the task outside any try: CancelledError leaves it.
LifespanAfterAwaitUncaught(position) ==
    IF AwaitTask(position) = "returned" THEN "exited" ELSE "raised"

\* try: await task / except asyncio.CancelledError: pass
LifespanAfterAwait(position) ==
    IF AwaitTask(position) \in {"returned", "CancelledError"} THEN "exited" ELSE "raised"

\* lifespan resumes when the awaited task is done.
LifespanExit ==
    /\ lifespan = "stopping"
    /\ task \in {"finished", "cancelled"}
    /\ lifespan' = LifespanAfterAwait(task)
    /\ UNCHANGED <<storeVars, clock, config, task, wakeAt, mustCancel, lastCycle, lastQuery,
                   restVars>>

\* PiDashboardServer.get_system_metrics_history for one request.
GetSystemMetricsHistory ==
    \E last_n_seconds \in RequestWindows :
        LET window == Window(last_n_seconds, config.max_history_duration)
            now == current_timestamp_int
        IN  /\ lifespan \in {"running", "stopping"}
            /\ lastQuery' =
                   IF ValidRequest(last_n_seconds)
                   THEN [status |-> "ok", last_n_seconds |-> last_n_seconds,
                         window |-> window, now |-> now,
                         result |-> get_entries_since(history, window, now)]
                   ELSE [status |-> "rejected", last_n_seconds |-> last_n_seconds,
                         window |-> 0, now |-> 0, result |-> <<>>]
            /\ history' =
                   IF ValidRequest(last_n_seconds)
                   THEN history_after_get_entries_since(history, window, now)
                   ELSE history
            /\ UNCHANGED <<nextId, call, clock, config, lifespan, task, wakeAt,
                           mustCancel, lastCycle, restVars>>

Next ==
    \/ Tick
    \/ LifespanStartup
    \/ SamplerCycle
    \/ LifespanShutdown
    \/ SamplerCancelled
    \/ LifespanExit
    \/ GetSystemMetricsHistory

Spec == Init /\ [][Next]_vars

\* The event loop runs every task that is ready: a cancelled task is resumed
\* with CancelledError, and lifespan is resumed once the task it awaits is done.
FairSpec == Spec /\ WF_vars(SamplerCancelled) /\ WF_vars(LifespanExit)

(***************************************************************************)
(* Properties of SystemMetricsHistory, checked under StoreSpec.            *)
(***************************************************************************)
\* The positions of the entries of a list that are inside the window.
KeptIndexes(entries, cutoff) == {i \in 1..Len(entries) : entries[i].timestamp >= cutoff}

\* res is the sub-list of entries at the positions kept, in the same order.
IsWindowOf(res, entries, cutoff) ==
    LET kept == KeptIndexes(entries, cutoff)
    IN  /\ Len(res) = Cardinality(kept)
        /\ \A i \in kept : res[Cardinality({j \in kept : j <= i})] = entries[i]

\* Entries appear in the order in which add_entry inserted them.
InInsertionOrder(s) == \A i, j \in 1..Len(s) : i < j => s[i].id < s[j].id

\* s is a subsequence of t (greedy matching from the front).
RECURSIVE IsSubsequence(_, _)
IsSubsequence(s, t) ==
    IF s = <<>> THEN TRUE
    ELSE IF t = <<>> THEN FALSE
    ELSE IF Head(s) = Head(t) THEN IsSubsequence(Tail(s), Tail(t))
    ELSE IsSubsequence(s, Tail(t))

\* C1: immediately after any cleanup_old_entries(max_age, now), whatever
\* add_entry and cleanup_old_entries calls came before, every entry left in
\* the store has timestamp >= now - max_age.
C1_WindowInvariant ==
    call.op = "cleanup_old_entries" =>
        \A i \in 1..Len(history) : history[i].timestamp >= call.now - call.a

\* C1 witness: a cleanup that removed some entries and kept others.
C1_Witness ==
    /\ call.op = "cleanup_old_entries"
    /\ Len(history) >= 1
    /\ Len(history) < Len(call.pre)
    /\ nextId > 1 /\ nextId <= MaxAdds + 1

\* C6: get_entries_since(seconds_ago, current_time) returns exactly the
\* entries with timestamp >= current_time - seconds_ago, in stored order and
\* with multiplicity; the boundary is inclusive; an empty store gives an
\* empty result.
C6_GetEntriesSinceExact ==
    call.op = "get_entries_since" =>
        /\ IsWindowOf(call.result, history, call.now - call.a)
        /\ \A i \in 1..Len(history) :
               history[i].timestamp = call.now - call.a =>
                   \E k \in 1..Len(call.result) : call.result[k] = history[i]
        /\ history = <<>> => call.result = <<>>

\* C6 witness: seconds_ago = 0 with two stored entries whose timestamp is
\* current_time; both are returned, and an older entry is not.
C6_Witness ==
    /\ call.op = "get_entries_since"
    /\ call.a = 0
    /\ Cardinality({i \in 1..Len(history) : history[i].timestamp = call.now}) = 2
    /\ Len(call.result) = 2
    /\ Len(history) = 3

\* C7: cleanup_old_entries(max_age, now) leaves exactly the entries of the
\* previous store with timestamp >= now - max_age, in order; for the entries
\* 1000, 1060, ..., 1540 and cleanup(300, 1540) the 6 entries >= 1240 remain.
C7_CleanupExact ==
    call.op = "cleanup_old_entries" =>
        /\ IsWindowOf(history, call.pre, call.now - call.a)
        /\ (call.pre = ScenarioHistory /\ call.a = 300 /\ call.now = 1540) =>
               /\ Len(history) = 6
               /\ \A i \in 1..6 : history[i].timestamp = 1240 + 60 * (i - 1)

\* C7 witness: the scenario cleanup(300, 1540) on the ten-entry store.
C7_Witness ==
    /\ call.op = "cleanup_old_entries"
    /\ call.pre = ScenarioHistory /\ call.a = 300 /\ call.now = 1540
    /\ Len(history) = 6

\* C8: a cleanup_old_entries(max_age, now) that directly follows a
\* cleanup_old_entries with the same arguments changes nothing.
C8_CleanupIdempotent ==
    (call.op = "cleanup_old_entries" /\ call.twice) => history = call.pre

\* C8 witness: the second of two identical cleanups, the first of which
\* removed an entry and kept another.
C8_Witness ==
    /\ call.op = "cleanup_old_entries"
    /\ call.twice
    /\ call.prevRemoved > 0
    /\ Len(history) >= 1

\* C9: the survivors of cleanup_old_entries, and the entries returned by
\* get_entries_since, are in the order in which add_entry inserted them.
C9_OrderPreserved ==
    /\ call.op = "cleanup_old_entries" => InInsertionOrder(history)
    /\ call.op = "get_entries_since" => InInsertionOrder(call.result)

\* C9 witness: a query that drops an entry and returns two entries whose
\* timestamps are out of chronological order.
C9_Witness ==
    /\ call.op = "get_entries_since"
    /\ Len(call.result) = 2
    /\ Len(history) = 3
    /\ call.result[1].timestamp > call.result[2].timestamp

\* C10: for the store and the now of a query get_entries_since(a, now), the
\* result is a subsequence of get_entries_since(b, now) for every b >= a.
C10_QueryMonotone ==
    call.op = "get_entries_since" =>
        \A b \in Ages :
            call.a <= b =>
                IsSubsequence(call.result, get_entries_since(history, b, call.now))

\* C10 witness: a query whose result is non-empty and strictly smaller than
\* the result of a wider query at the same now.
C10_Witness ==
    /\ call.op = "get_entries_since"
    /\ Len(call.result) >= 1
    /\ \E b \in Ages :
           /\ call.a < b
           /\ Len(get_entries_since(history, b, call.now)) > Len(call.result)

(***************************************************************************)
(* Properties of the sampler, lifespan and the query handler, under Spec.  *)
(***************************************************************************)
\* C2 as stated: when the sample source fails in a cycle, the store holds as
\* many entries after the cycle as before it.
C2_CountUnchangedOnFailure ==
    lastCycle.outcome = "fail" => Len(history) = Len(lastCycle.pre)

\* C2 amended: when the sample source fails in a cycle, the store after the
\* cycle is the store before it pruned to the window of the cycle's timestamp:
\* nothing is appended and the count does not grow.
C2_FailedCycleOnlyPrunes ==
    lastCycle.outcome = "fail" =>
        /\ IsWindowOf(history, lastCycle.pre,
                      lastCycle.now - config.max_history_duration)
        /\ Len(history) <= Len(lastCycle.pre)
        /\ \A i \in 1..Len(history) :
               \E j \in 1..Len(lastCycle.pre) : history[i] = lastCycle.pre[j]

\* C2 witness: a failed cycle whose cleanup pruned an entry and kept another.
C2_Witness ==
    /\ lastCycle.outcome = "fail"
    /\ Len(history) >= 1
    /\ Len(history) < Len(lastCycle.pre)

\* C3: after a cycle in which the sample source failed the task is suspended
\* until collection_interval has passed, is then ready to run the next cycle,
\* does not run it earlier, and a successful cycle that follows any number
\* of failed ones appends its entry.
C3_FailureDoesNotStopSampler ==
    /\ (lastCycle.outcome = "fail" /\ lifespan = "running") =>
           /\ task = "sleeping_after_error"
           /\ wakeAt = lastCycle.now + config.collection_interval
           /\ clock >= wakeAt => ENABLED SamplerCycle
    /\ lastCycle.failsBefore > 0 =>
           lastCycle.now >= lastCycle.prevWake
    /\ (lastCycle.failsBefore > 0 /\ lastCycle.outcome = "ok") =>
           /\ Len(history) =
                  1 + Cardinality(KeptIndexes(lastCycle.pre,
                          lastCycle.now - config.max_history_duration))
           /\ history[Len(history)] =
                  SystemMetricsHistoryEntry(nextId - 1, lastCycle.now)

\* C3 witness: a successful cycle right after two consecutive failed cycles,
\* in a store that already held an entry.
C3_Witness ==
    /\ lastCycle.outcome = "ok"
    /\ lastCycle.failsBefore >= 2
    /\ Len(history) >= 2
    /\ history[Len(history)].timestamp = lastCycle.now

\* C4: from the moment lifespan shutdown has cancelled the sampler task the
\* store never changes again: no append and no cleanup.
C4_NoChangeAfterCancel ==
    [][(lifespan \in {"stopping", "exited"}) => (history' = history)]_vars

\* C4 witness: shutdown is complete, the store holds entries, and the clock
\* is past the time at which the cancelled sleep would have ended.
C4_Witness ==
    /\ lifespan = "exited"
    /\ task = "finished"
    /\ history # <<>>
    /\ clock >= wakeAt + config.collection_interval

\* C5: for every valid request the window passed to get_entries_since is
\* min(last_n_seconds, max_history_duration), so it never exceeds
\* max_history_duration; with max 1800 a request of 5000 uses 1800.
C5_Clamping ==
    lastQuery.status = "ok" =>
        /\ lastQuery.last_n_seconds >= 1
        /\ lastQuery.window <= config.max_history_duration
        /\ lastQuery.window <= lastQuery.last_n_seconds
        /\ lastQuery.window \in {lastQuery.last_n_seconds, config.max_history_duration}
        /\ (config.max_history_duration = 1800 /\ lastQuery.last_n_seconds = 5000) =>
               lastQuery.window = 1800

\* C5 witness: a request of 5000 seconds served with max_history_duration 1800.
C5_Witness ==
    /\ lastQuery.status = "ok"
    /\ lastQuery.last_n_seconds = 5000
    /\ config.max_history_duration = 1800
    /\ lastQuery.window = 1800

\* C11: the store is changed by sampler cycles only: no step of the query
\* handler (and so no call of get_entries_since) changes the sequence, however
\* queries and cycles interleave.
C11_OnlySamplerChangesStore ==
    [][/\ (lastQuery' # lastQuery) => (history' = history)
       /\ (history' # history) => (lastCycle' # lastCycle /\ lastQuery' = lastQuery)]_vars

\* C11 witness: after some cycles, a query whose window left an entry out of
\* its response; the store still holds every entry.
C11_Witness ==
    /\ lastQuery.status = "ok"
    /\ lastQuery.now = clock
    /\ lastCycle.now <= lastQuery.now
    /\ Len(lastQuery.result) >= 1
    /\ Len(lastQuery.result) < Len(history)

\* C12: with a clock that never goes back, the stored entries are in
\* non-decreasing timestamp order in every reachable state of the server.
C12_ChronologicalOrder ==
    \A i, j \in 1..Len(history) : i < j => history[i].timestamp <= history[j].timestamp

\* C12 witness: successful cycles, then a failed cycle that pruned an entry
\* and left two.
C12_Witness ==
    /\ lastCycle.outcome = "fail"
    /\ Len(history) >= 2
    /\ Len(history) < Len(lastCycle.pre)

\* C13 as stated: the store never holds more than
\* max_history_duration / collection_interval entries.
C13_SizeAtMostQuotient ==
    Len(history) <= config.max_history_duration \div config.collection_interval

\* C13 amended: the store never holds more than
\* max_history_duration / collection_interval + 1 entries (the window
\* boundary is inclusive).
C13_SizeAtMostQuotientPlusOne ==
    Len(history) <= (config.max_history_duration \div config.collection_interval) + 1

\* C13 witness: a cycle that pruned an entry and left the store at the bound.
C13_Witness ==
    /\ lastCycle.outcome = "ok"
    /\ lastCycle.pruned >= 1
    /\ Len(history) =
           (config.max_history_duration \div config.collection_interval) + 1

\* C14: as long as no entry has aged out of the window, the store holds one
\* entry per cycle in which the sample source succeeded.
C14_LengthIsSuccessCount ==
    lastCycle.pruned = 0 =>
        Len(history) =
            Cardinality({k \in 1..Len(lastCycle.outcomes) : lastCycle.outcomes[k]})

\* C14 witness: five cycles, the source failing in the second only; the store
\* holds four entries.
C14_Witness ==
    /\ lastCycle.outcomes = <<TRUE, FALSE, TRUE, TRUE, TRUE>>
    /\ lastCycle.pruned = 0
    /\ Len(history) = 4

\* C15 as stated: on the ten entries 1000, 1060, ..., 1540,
\* get_entries_since(300, 1540) returns exactly 5 entries.
C15_ScenarioReturnsFive ==
    (/\ call.op = "get_entries_since"
     /\ call.pre = ScenarioHistory /\ call.a = 300 /\ call.now = 1540) =>
        Len(call.result) = 5

\* C15 amended: on the ten entries 1000, 1060, ..., 1540,
\* get_entries_since(300, 1540) returns exactly the 6 entries with timestamp
\* >= 1240: 1240, 1300, 1360, 1420, 1480, 1540.
C15_ScenarioReturnsSix ==
    (/\ call.op = "get_entries_since"
     /\ call.pre = ScenarioHistory /\ call.a = 300 /\ call.now = 1540) =>
        /\ Len(call.result) = 6
        /\ \A i \in 1..6 : call.result[i] = ScenarioHistory[i + 4]
        /\ \A i \in 1..10 :
               ScenarioHistory[i].timestamp >= 1240 <=>
                   \E k \in 1..Len(call.result) : call.result[k] = ScenarioHistory[i]

\* C15 witness: the scenario query has been made.
C15_Witness ==
    /\ call.op = "get_entries_since"
    /\ call.pre = ScenarioHistory /\ call.a = 300 /\ call.now = 1540
    /\ Len(call.result) = 6
    /\ history = ScenarioHistory

\* C20: a cycle prunes with its timestamp now and then appends the entry
\* stamped with the same now, so right after a successful cycle every entry,
\* the new one included, has timestamp >= now - max_history_duration.
C20_PruneThenAppendSameNow ==
    lastCycle.outcome = "ok" =>
        /\ \A i \in 1..Len(history) :
               history[i].timestamp >= lastCycle.now - config.max_history_duration
        /\ history[Len(history)].timestamp = lastCycle.now
        /\ IsWindowOf(SubSeq(history, 1, Len(history) - 1), lastCycle.pre,
                      lastCycle.now - config.max_history_duration)

\* C20 witness: a successful cycle that pruned an aged-out entry, kept
\* another and appended its own.
C20_Witness ==
    /\ lastCycle.outcome = "ok"
    /\ Len(history) >= 2
    /\ Len(history) <= Len(lastCycle.pre)

(***************************************************************************)
(* CacheSpec: ttl_cache (weather_handler.py). One caller at a time calls   *)
(* the wrapper; the wrapped coroutine returns a fresh value (its call      *)
(* count, as in the tests), returns None, or raises. The clock may advance *)
(* while the wrapped coroutine is awaited.                                 *)
(***************************************************************************)
TtlMinutes == {1, 2}

\* The objects a decorated method is called on (self, the first of *args):
\* two WeatherHandler instances, each with a location of its own.
Handlers == {1, 2}

\* timedelta(minutes=minutes), in seconds
cache_ttl(mins) == mins * 60

\* A validity test with the comparison cache_age <= cache_ttl.
cache_valid_inclusive(cd, now, mins) ==
    /\ cd.result # None
    /\ cd.timestamp # None
    /\ now - cd.timestamp <= cache_ttl(mins)

\* Lines 35-39 of wrapper: the cache holds a result and a timestamp, and
\* cache_age < cache_ttl.
cache_valid(cd, now, mins) ==
    /\ cd.result # None
    /\ cd.timestamp # None
    /\ now - cd.timestamp < cache_ttl(mins)

CacheInit ==
    /\ history = <<>>
    /\ nextId = 1
    /\ call = NoCall
    /\ ServerUnused
    /\ cache_data = NoCache
    /\ minutes \in TtlMinutes
    /\ func_calls = 0
    /\ wrapper = NoWrapper
    /\ lastFetch = NoFetch
    /\ calls = <<>>
    /\ NotesUnused
    /\ ContainerUnused

\* The clock advances.
CacheTick ==
    /\ clock + ClockStep <= MaxClock
    /\ clock' = clock + ClockStep
    /\ UNCHANGED <<storeVars, config, lifespan, task, wakeAt, mustCancel, lastCycle,
                   lastQuery, cacheVars, notesVars, containerVars>>

\* wrapper, lines 31-47: read the time, return the cached result if the
\* cache is valid, else start awaiting func.
WrapperCall ==
    \E self \in Handlers :
        LET now == clock
            hit == cache_valid(cache_data, now, minutes)
            age == IF lastFetch.at = None THEN None ELSE now - lastFetch.at
        IN  /\ wrapper.state # "fetching"
            /\ hit \/ func_calls < MaxFuncCalls
            /\ wrapper' = [state |-> IF hit THEN "returned" ELSE "fetching",
                           now |-> now,
                           invoked |-> ~hit,
                           value |-> IF hit THEN cache_data.result ELSE None,
                           age |-> age,
                           cached |-> lastFetch.result,
                           self |-> self,
                           source |-> IF hit THEN lastFetch.self ELSE None]
            /\ func_calls' = IF hit THEN func_calls ELSE func_calls + 1
            /\ UNCHANGED <<storeVars, serverVars, cache_data, minutes, lastFetch, calls,
                           notesVars, containerVars>>

\* wrapper, lines 47-53: func(self) returned a result built from self;
\* store the result and the time read at the start of the call, return the
\* result.
FuncReturns ==
    \E result \in {func_calls, None} :
        /\ wrapper.state = "fetching"
        /\ cache_data' = [result |-> result, timestamp |-> wrapper.now]
        /\ wrapper' = [wrapper EXCEPT !.state = "returned", !.value = result,
                                      !.source = wrapper.self]
        /\ lastFetch' = [at |-> wrapper.now, result |-> result, self |-> wrapper.self]
        /\ UNCHANGED <<storeVars, serverVars, minutes, func_calls, calls, notesVars,
                       containerVars>>

\* wrapper, line 47: func raised; the exception leaves the wrapper and the
\* cache is not touched.
FuncRaises ==
    /\ wrapper.state = "fetching"
    /\ wrapper' = [wrapper EXCEPT !.state = "raised"]
    /\ UNCHANGED <<storeVars, serverVars, cache_data, minutes, func_calls, lastFetch,
                   calls, notesVars, containerVars>>

CacheNext == CacheTick \/ WrapperCall \/ FuncReturns \/ FuncRaises

CacheSpec == CacheInit /\ [][CacheNext]_vars

\* C16 as stated: a call made less than m minutes after the call that last
\* fetched returns that call's result without invoking the function; a call
\* made m minutes or more after it invokes the function and, when the
\* function returns, returns and caches the fresh result.
C16_TtlCache ==
    (wrapper.state # "idle" /\ wrapper.age # None) =>
        IF wrapper.age < minutes * 60
        THEN /\ wrapper.state = "returned"
             /\ ~wrapper.invoked
             /\ wrapper.value = wrapper.cached
        ELSE /\ wrapper.invoked
             /\ wrapper.state = "returned" =>
                    cache_data = [result |-> wrapper.value, timestamp |-> wrapper.now]

\* C16 amended: the same, for a last fetched result that is not None; after
\* a fetch that returned None every call invokes the function again.
C16_TtlCacheNotNone ==
    (wrapper.state # "idle" /\ wrapper.age # None) =>
        IF wrapper.age < minutes * 60 /\ wrapper.cached # None
        THEN /\ wrapper.state = "returned"
             /\ ~wrapper.invoked
             /\ wrapper.value = wrapper.cached
        ELSE /\ wrapper.invoked
             /\ wrapper.state = "returned" =>
                    cache_data = [result |-> wrapper.value, timestamp |-> wrapper.now]

\* C16 witness: a second fetch was made after the first result expired, and
\* a later call inside the TTL was served from the cache.
C16_Witness ==
    /\ wrapper.state = "returned"
    /\ ~wrapper.invoked
    /\ wrapper.age # None /\ wrapper.age > 0
    /\ wrapper.value = 2
    /\ func_calls = 2
    /\ lastFetch.at = minutes * 60

(***************************************************************************)
(* NotesSpec: NotesHandler. Strings are numbers, 0 the empty string; an    *)
(* absent argument is None; uuid4() yields 1, 2, ...; notes are created at *)
(* time 1 and updated at time 2.                                           *)
(***************************************************************************)
Titles == {1, 2}
Contents == {0, 1}
TitleArgs == {None, 0, 1, 2}
ContentArgs == {None, 0, 1}
CreateStamps == {1}
UpdateStamps == {2}
NoteIds == 1..MaxNotes

\* The outcomes this call of _write_notes can have: it may fail (opening the
\* temp file, dumping into it, or renaming it) while fewer than
\* MaxWriteFailures writes have failed.
WriteOutcomes ==
    IF write_failures < MaxWriteFailures
    THEN {"ok", "open_fails", "dump_fails", "replace_fails"}
    ELSE {"ok"}

Note(id, title, content, created_at, updated_at) ==
    [id |-> id, title |-> title, content |-> content, created_at |-> created_at,
     updated_at |-> updated_at]

\* NotesCollection.get_note_by_id: the first note with the id, else None
RECURSIVE get_note_by_id(_, _)
get_note_by_id(ns, note_id) ==
    IF ns = <<>> THEN NoNote
    ELSE IF Head(ns).id = note_id THEN Head(ns)
    ELSE get_note_by_id(Tail(ns), note_id)

\* NotesCollection.add_note: self.notes after the append
add_note(ns, uuid, title, content, current_timestamp) ==
    Append(ns, Note(uuid, title, content, current_timestamp, current_timestamp))

\* Python's "a or b" on str | None: a unless a is None or the empty string
Or(a, b) == IF a # None /\ a # 0 THEN a ELSE b

\* NotesCollection.update_note: self.notes after the call; the note found by
\* get_note_by_id (the first with the id) is changed in place.
RECURSIVE update_note(_, _, _, _, _)
update_note(ns, note_id, current_timestamp, title, content) ==
    IF ns = <<>> THEN <<>>
    ELSE IF Head(ns).id = note_id
         THEN <<[Head(ns) EXCEPT !.title = Or(title, @),
                                 !.content = Or(content, @),
                                 !.updated_at = current_timestamp]>> \o Tail(ns)
         ELSE <<Head(ns)>> \o update_note(Tail(ns), note_id, current_timestamp, title, content)

\* list.remove(x): the list without its first element equal to x
RECURSIVE list_remove(_, _)
list_remove(ns, x) ==
    IF ns = <<>> THEN <<>>
    ELSE IF Head(ns) = x THEN Tail(ns)
    ELSE <<Head(ns)>> \o list_remove(Tail(ns), x)

\* A delete_note that reports success whether or not the note was found.
delete_note_always_true(ns, note_id) ==
    LET note == get_note_by_id(ns, note_id)
    IN  [notes |-> IF note # NoNote THEN list_remove(ns, note) ELSE ns, success |-> TRUE]

\* NotesCollection.delete_note: self.notes after the call and the value returned
delete_note(ns, note_id) ==
    LET note == get_note_by_id(ns, note_id)
    IN  IF note # NoNote
        THEN [notes |-> list_remove(ns, note), success |-> TRUE]
        ELSE [notes |-> ns, success |-> FALSE]

\* A file of the data directory: absent, or holding a collection that was
\* written completely or only in part.
NoFile == [exists |-> FALSE, complete |-> FALSE, content |-> <<>>]
File(content, complete) == [exists |-> TRUE, complete |-> complete, content |-> content]
Files(json, temp) == [json |-> json, temp |-> temp]

\* A write that dumps the collection straight into notes.json.
write_notes_steps_in_place(file, collection, outcome) ==
    LET before == Files(File(file, TRUE), NoFile)
        opened == Files(File(collection, FALSE), NoFile)
        dumped == Files(File(collection, TRUE), NoFile)
    IN  CASE outcome = "open_fails" -> <<before>>
          [] outcome = "dump_fails" -> <<before, opened>>
          [] OTHER -> <<before, opened, dumped>>

\* NotesHandler._write_notes: the states of notes.json and notes.tmp during
\* the call. The temp file is opened and dumped into, then renamed over
\* notes.json; when a step raises, the temp file is unlinked if it exists.
write_notes_steps(file, collection, outcome) ==
    LET before == Files(File(file, TRUE), NoFile)
        opened == Files(File(file, TRUE), File(collection, FALSE))
        dumped == Files(File(file, TRUE), File(collection, TRUE))
        replaced == Files(File(collection, TRUE), NoFile)
    IN  CASE outcome = "open_fails" -> <<before>>
          [] outcome = "dump_fails" -> <<before, opened, before>>
          [] outcome = "replace_fails" -> <<before, opened, dumped, before>>
          [] OTHER -> <<before, opened, dumped, replaced>>

\* notes.json after _write_notes
write_notes(file, collection, outcome) ==
    LET steps == write_notes_steps(file, collection, outcome)
    IN  steps[Len(steps)].json.content

\* After NotesHandler(data_dir) with no notes.json: the file is created
\* from the empty collection.
NotesInit ==
    /\ history = <<>>
    /\ nextId = 1
    /\ call = NoCall
    /\ ServerUnused
    /\ CacheUnused
    /\ ContainerUnused
    /\ notes = <<>>
    /\ notes_file = <<>>
    /\ next_uuid = 1
    /\ write_failures = 0
    /\ noteCall = NoNoteCall

\* NotesHandler.create_note
NotesCreateNote ==
    \E title \in Titles, content \in Contents, current_timestamp \in CreateStamps,
       outcome \in WriteOutcomes :
        LET after == add_note(notes, next_uuid, title, content, current_timestamp)
            write_ok == outcome = "ok"
        IN  /\ next_uuid <= MaxNotes
            /\ notes' = after
            /\ next_uuid' = next_uuid + 1
            /\ notes_file' = write_notes(notes_file, after, outcome)
            /\ noteCall' = [op |-> "create_note", note_id |-> next_uuid, title |-> title,
                            content |-> content, current_timestamp |-> current_timestamp,
                            pre |-> notes,
                            returned |-> IF write_ok THEN after[Len(after)] ELSE NoNote,
                            success |-> write_ok, wrote |-> TRUE, raised |-> ~write_ok,
                            fs |-> write_notes_steps(notes_file, after, outcome)]
            /\ write_failures' = IF write_ok THEN write_failures ELSE write_failures + 1
            /\ UNCHANGED <<storeVars, serverVars, cacheVars, containerVars>>

\* NotesHandler.update_note
NotesUpdateNote ==
    \E note_id \in NoteIds, title \in TitleArgs, content \in ContentArgs,
       current_timestamp \in UpdateStamps, outcome \in WriteOutcomes :
        LET after == update_note(notes, note_id, current_timestamp, title, content)
            note == get_note_by_id(after, note_id)
            found == note # NoNote
            write_ok == outcome = "ok"
        IN  /\ notes' = after
            /\ notes_file' = IF found THEN write_notes(notes_file, after, outcome)
                             ELSE notes_file
            /\ noteCall' = [op |-> "update_note", note_id |-> note_id, title |-> title,
                            content |-> content, current_timestamp |-> current_timestamp,
                            pre |-> notes,
                            returned |-> IF found /\ ~write_ok THEN NoNote ELSE note,
                            success |-> found /\ write_ok, wrote |-> found,
                            raised |-> found /\ ~write_ok,
                            fs |-> IF found THEN write_notes_steps(notes_file, after, outcome)
                                   ELSE <<>>]
            /\ write_failures' = IF found /\ ~write_ok THEN write_failures + 1
                                  ELSE write_failures
            /\ UNCHANGED <<storeVars, serverVars, cacheVars, containerVars, next_uuid>>

\* NotesHandler.delete_note
NotesDeleteNote ==
    \E note_id \in NoteIds, outcome \in WriteOutcomes :
        LET done == delete_note(notes, note_id)
            write_ok == outcome = "ok"
        IN  /\ notes' = done.notes
            /\ notes_file' = IF done.success
                             THEN write_notes(notes_file, done.notes, outcome)
                             ELSE notes_file
            /\ noteCall' = [op |-> "delete_note", note_id |-> note_id, title |-> None,
                            content |-> None, current_timestamp |-> None,
                            pre |-> notes, returned |-> NoNote,
                            success |-> done.success /\ write_ok,
                            wrote |-> done.success,
                            raised |-> done.success /\ ~write_ok,
                            fs |-> IF done.success
                                   THEN write_notes_steps(notes_file, done.notes, outcome)
                                   ELSE <<>>]
            /\ write_failures' = IF done.success /\ ~write_ok THEN write_failures + 1
                                  ELSE write_failures
            /\ UNCHANGED <<storeVars, serverVars, cacheVars, containerVars, next_uuid>>

NotesNext == NotesCreateNote \/ NotesUpdateNote \/ NotesDeleteNote

NotesSpec == NotesInit /\ [][NotesNext]_vars

\* The notes of ns other than the one with the id, in order
RECURSIVE OtherNotes(_, _)
OtherNotes(ns, note_id) ==
    IF ns = <<>> THEN <<>>
    ELSE IF Head(ns).id = note_id THEN OtherNotes(Tail(ns), note_id)
    ELSE <<Head(ns)>> \o OtherNotes(Tail(ns), note_id)

\* C17: NotesCollection.update_note on an existing id sets title to the new
\* title if one is provided and content to the new content if one is
\* provided, leaves a field unchanged when its argument is None, sets
\* updated_at to current_timestamp, and leaves id, created_at and every
\* other note unchanged.
C17_UpdateSetsProvidedFields ==
    (noteCall.op = "update_note" /\ get_note_by_id(noteCall.pre, noteCall.note_id) # NoNote) =>
        LET old == get_note_by_id(noteCall.pre, noteCall.note_id)
            new == get_note_by_id(notes, noteCall.note_id)
        IN  /\ new.title = IF noteCall.title # None THEN noteCall.title ELSE old.title
            /\ new.content = IF noteCall.content # None THEN noteCall.content ELSE old.content
            /\ new.updated_at = noteCall.current_timestamp
            /\ new.id = old.id
            /\ new.created_at = old.created_at
            /\ Len(notes) = Len(noteCall.pre)
            /\ OtherNotes(notes, noteCall.note_id) = OtherNotes(noteCall.pre, noteCall.note_id)

\* C18: update_note with an id not in the collection returns None and
\* delete_note returns False, in both cases leaving the collection unchanged
\* and performing no file write; delete_note with an existing id returns
\* True and afterwards get_note_by_id for that id returns None while all
\* other notes remain.
C18_NotFoundAndDelete ==
    LET old == get_note_by_id(noteCall.pre, noteCall.note_id)
    IN  /\ (noteCall.op = "update_note" /\ old = NoNote) =>
                /\ noteCall.returned = NoNote
                /\ notes = noteCall.pre
                /\ ~noteCall.wrote
        /\ (noteCall.op = "delete_note" /\ old = NoNote) =>
                /\ ~noteCall.success
                /\ ~noteCall.raised
                /\ notes = noteCall.pre
                /\ ~noteCall.wrote
        /\ (noteCall.op = "delete_note" /\ old # NoNote /\ ~noteCall.raised) =>
                /\ noteCall.success
                /\ get_note_by_id(notes, noteCall.note_id) = NoNote
                /\ notes = OtherNotes(noteCall.pre, noteCall.note_id)

\* C18 witness: with two notes stored, the first was deleted and the second
\* remains.
C18_Witness ==
    /\ noteCall.op = "delete_note"
    /\ noteCall.success
    /\ Len(noteCall.pre) = 2
    /\ noteCall.note_id = 1
    /\ Len(notes) = 1
    /\ notes[1].id = 2

\* C18 witness of the not-found case: a delete of an id that is not stored,
\* while another note is.
C18_WitnessNotFound ==
    /\ noteCall.op = "delete_note"
    /\ ~noteCall.success
    /\ ~noteCall.wrote
    /\ Len(notes) = 1
    /\ notes[1].id # noteCall.note_id

(***************************************************************************)
(* ContainerSpec: ContainerHandler. The Docker daemon holds at most one    *)
(* container per name; a container has a short_id, a status and an image   *)
(* that has tags or not. Every call to the daemon that a handler makes can *)
(* fail with one of the exception classes the handler distinguishes; a     *)
(* call that fails has no effect on the daemon.                            *)
(***************************************************************************)
Names == 1..MaxContainers
ContainerIds == 1..(MaxContainers + MaxNewContainers)
Statuses == {"running", "exited"}
DockerContainer(short_id, status, tags) ==
    [short_id |-> short_id, status |-> status, tags |-> tags]

\* docker.errors: NotFound is a subclass of APIError, which is an Exception.
Errors == {"NotFound", "APIError", "Exception"}
Bases(error) ==
    CASE error = "NotFound" -> {"NotFound", "APIError", "Exception"}
      [] error = "APIError" -> {"APIError", "Exception"}
      [] error = "Exception" -> {"Exception"}
      [] OTHER -> {}
IsInstance(error, class) == class \in Bases(error)

\* The failure injected into one handler call: none, or one daemon call raising.
Failures(steps) == {NoFailure} \cup [step : steps, error : Errors]

\* client.containers.get(container_id): the name of the container with this
\* short_id, None when there is none (the daemon answers 404, NotFound).
containers_get(cs, container_id) ==
    IF \E n \in Names : cs[n].short_id = container_id
    THEN CHOOSE n \in Names : cs[n].short_id = container_id
    ELSE None

\* The progress of a handler call: the daemon's containers, the daemon
\* calls made so far and the exception raised ("none" while none was).
Started(cs) == [containers |-> cs, steps |-> <<>>, error |-> "none"]

\* containers.get as a step: raises the injected failure, or NotFound when
\* the container does not exist.
GetStep(st, container_id, fail) ==
    LET made == [st EXCEPT !.steps = Append(@, "get")]
    IN  IF fail.step = "get" THEN [made EXCEPT !.error = fail.error]
        ELSE IF containers_get(st.containers, container_id) = None
             THEN [made EXCEPT !.error = "NotFound"]
             ELSE made

\* One further daemon call: skipped once an exception was raised, raising
\* the injected failure, or taking effect.
DockerCall(st, step, fail, effect) ==
    IF st.error # "none" THEN st
    ELSE LET made == [st EXCEPT !.steps = Append(@, step)]
         IN  IF fail.step = step THEN [made EXCEPT !.error = fail.error]
             ELSE [made EXCEPT !.containers = effect]

Response(code, message, response_id) ==
    [code |-> code, message |-> message, response_id |-> response_id, raised |-> FALSE]
Raised == [code |-> "none", message |-> "none", response_id |-> None, raised |-> TRUE]

\* The except clauses of start_container, stop_container and
\* restart_container: NotFound, then APIError; anything else propagates.
ActionExcept(error, container_id) ==
    IF IsInstance(error, "NotFound")
    THEN Response("INTERNAL_SERVER_ERROR", "Container not found: id", container_id)
    ELSE IF IsInstance(error, "APIError")
    THEN Response("INTERNAL_SERVER_ERROR", "Docker API error", container_id)
    ELSE Raised

\* The except clauses of update_container: NotFound, then APIError, then Exception.
UpdateExcept(error, container_id) ==
    IF IsInstance(error, "NotFound")
    THEN Response("NOT_FOUND", "Container not found", container_id)
    ELSE IF IsInstance(error, "APIError")
    THEN Response("INTERNAL_SERVER_ERROR", "Docker API error", container_id)
    ELSE Response("INTERNAL_SERVER_ERROR", "Unexpected error", container_id)

\* start_container, stop_container and restart_container: get the container
\* and make one call on it that leaves it with the given status.
container_action(has_client, cs, action, status, container_id, fail) ==
    IF ~has_client
    THEN [st |-> Started(cs),
          response |-> Response("INTERNAL_SERVER_ERROR", "Docker daemon not available",
                                container_id)]
    ELSE LET name == containers_get(cs, container_id)
             got == GetStep(Started(cs), container_id, fail)
             done == DockerCall(got, action, fail,
                                [got.containers EXCEPT ![name].status = status])
         IN  [st |-> done,
              response |-> IF done.error = "none"
                           THEN Response("OK", "successfully", container_id)
                           ELSE ActionExcept(done.error, container_id)]

\* update_container: get, (no tags: return), pull, stop, remove, run.
update_container(has_client, cs, container_id, fail, new_id) ==
    IF ~has_client
    THEN [st |-> Started(cs),
          response |-> Response("INTERNAL_SERVER_ERROR", "Docker daemon not available",
                                container_id)]
    ELSE LET name == containers_get(cs, container_id)
             got == GetStep(Started(cs), container_id, fail)
         IN  IF got.error = "none" /\ ~cs[name].tags
             THEN [st |-> got,
                   response |-> Response("INTERNAL_SERVER_ERROR",
                                         "Cannot update container: image has no tags",
                                         container_id)]
             ELSE LET pulled == DockerCall(got, "pull", fail, got.containers)
                      stopped == DockerCall(pulled, "stop", fail,
                                     [pulled.containers EXCEPT ![name].status = "exited"])
                      removed == DockerCall(stopped, "remove", fail,
                                     [stopped.containers EXCEPT ![name] = NoContainer])
                      run == DockerCall(removed, "run", fail,
                                     [removed.containers EXCEPT
                                         ![name] = DockerContainer(new_id, "running", TRUE)])
                  IN  [st |-> run,
                       response |-> IF run.error = "none"
                                    THEN Response("OK", "updated successfully", new_id)
                                    ELSE UpdateExcept(run.error, container_id)]

\* The record of a finished handler call.
ContCall(op, container_id, done, pre) ==
    [op |-> op, container_id |-> container_id, steps |-> done.st.steps,
     failed |-> IF done.st.error = "none" THEN NoFailure
                ELSE [step |-> done.st.steps[Len(done.st.steps)], error |-> done.st.error],
     raised |-> done.response.raised, code |-> done.response.code,
     message |-> done.response.message, response_id |-> done.response.response_id,
     pre |-> pre]

\* After ContainerHandler(): the client is a DockerClient, or None when the
\* daemon could not be reached; the daemon holds any containers.
ContainerInit ==
    /\ history = <<>>
    /\ nextId = 1
    /\ call = NoCall
    /\ ServerUnused
    /\ CacheUnused
    /\ NotesUnused
    /\ client \in BOOLEAN
    /\ containers \in [Names -> {NoContainer} \cup
                        {DockerContainer(n, status, tags) :
                            n \in Names, status \in Statuses, tags \in BOOLEAN}]
    /\ \A n \in Names : containers[n] # NoContainer => containers[n].short_id = n
    /\ next_short_id = MaxContainers + 1
    /\ contCall = NoContCall

\* ContainerHandler.start_container
StartContainer ==
    \E container_id \in ContainerIds, fail \in Failures({"get", "start"}) :
        LET done == container_action(client, containers, "start", "running", container_id,
                                     fail)
        IN  /\ containers' = done.st.containers
            /\ contCall' = ContCall("start", container_id, done, containers)
            /\ UNCHANGED <<storeVars, serverVars, cacheVars, notesVars, client,
                           next_short_id>>

\* ContainerHandler.stop_container
StopContainer ==
    \E container_id \in ContainerIds, fail \in Failures({"get", "stop"}) :
        LET done == container_action(client, containers, "stop", "exited", container_id,
                                     fail)
        IN  /\ containers' = done.st.containers
            /\ contCall' = ContCall("stop", container_id, done, containers)
            /\ UNCHANGED <<storeVars, serverVars, cacheVars, notesVars, client,
                           next_short_id>>

\* ContainerHandler.restart_container
RestartContainer ==
    \E container_id \in ContainerIds, fail \in Failures({"get", "restart"}) :
        LET done == container_action(client, containers, "restart", "running", container_id,
                                     fail)
        IN  /\ containers' = done.st.containers
            /\ contCall' = ContCall("restart", container_id, done, containers)
            /\ UNCHANGED <<storeVars, serverVars, cacheVars, notesVars, client,
                           next_short_id>>

\* ContainerHandler.update_container
UpdateSteps == <<"get", "pull", "stop", "remove", "run">>
UpdateContainer ==
    \E container_id \in ContainerIds,
       fail \in Failures({UpdateSteps[i] : i \in 1..Len(UpdateSteps)}) :
        LET done == update_container(client, containers, container_id, fail, next_short_id)
        IN  /\ next_short_id <= MaxContainers + MaxNewContainers
            /\ containers' = done.st.containers
            /\ next_short_id' = IF done.response.code = "OK" THEN next_short_id + 1
                                 ELSE next_short_id
            /\ contCall' = ContCall("update", container_id, done, containers)
            /\ UNCHANGED <<storeVars, serverVars, cacheVars, notesVars, client>>

ContainerNext == StartContainer \/ StopContainer \/ RestartContainer \/ UpdateContainer

ContainerSpec == ContainerInit /\ [][ContainerNext]_vars

\* Whether s is a prefix of t
IsPrefix(s, t) == Len(s) <= Len(t) /\ s = SubSeq(t, 1, Len(s))

\* C19: update_container performs its steps in the order pull image, stop
\* container, remove container, run new container; if the image pull fails
\* with a Docker API error it returns an INTERNAL_SERVER_ERROR response with
\* message 'Docker API error' and the existing container has been neither
\* stopped nor removed.
C19_UpdateOrderAndPullFailure ==
    contCall.op = "update" =>
        /\ IsPrefix(contCall.steps, UpdateSteps)
        /\ (contCall.failed.step = "pull" /\ IsInstance(contCall.failed.error, "APIError")) =>
                /\ contCall.code = "INTERNAL_SERVER_ERROR"
                /\ contCall.message = "Docker API error"
                /\ containers = contCall.pre

(***************************************************************************)
(* Properties of the sampler task and the query handler, checked under     *)
(* Spec.                                                                   *)
(***************************************************************************)
\* The changes of the task's position: created at startup; a cycle leaves
\* it in one of the two sleeps; a delivered cancellation ends it.
SamplerTransitions ==
    {<<"not_started", "created">>,
     <<"created", "sleeping">>, <<"created", "sleeping_after_error">>,
     <<"sleeping", "sleeping_after_error">>, <<"sleeping_after_error", "sleeping">>,
     <<"created", "cancelled">>, <<"sleeping", "finished">>,
     <<"sleeping_after_error", "cancelled">>}

\* C21: the sampler goes idle, cycle, sleep, cycle, ..., ended; once ended
\* it never leaves that state; a cancellation is delivered only to a task
\* suspended in a sleep or not yet run, it ends the task and changes nothing
\* in the store; every change of the store is one whole cycle (prune, then
\* the append when the sample succeeded), so no cycle is cut short.
C21_SamplerStateMachine ==
    [][/\ (task' # task) => (<<task, task'>> \in SamplerTransitions)
       /\ (task \in {"finished", "cancelled"}) =>
              (task' = task /\ history' = history /\ lastCycle' = lastCycle)
       /\ (mustCancel /\ ~mustCancel') =>
              /\ task \in Suspended
              /\ task' \in {"finished", "cancelled"}
              /\ history' = history
              /\ lastCycle' = lastCycle
       /\ (lastCycle' # lastCycle) =>
              /\ ~mustCancel
              /\ task' \in {"sleeping", "sleeping_after_error"}
              /\ LET cut == lastCycle'.now - config.max_history_duration
                     ok == lastCycle'.outcome = "ok"
                     pruned == IF ok THEN SubSeq(history', 1, Len(history') - 1)
                               ELSE history'
                 IN  /\ IsWindowOf(pruned, history, cut)
                     /\ ok => /\ Len(history') >= 1
                              /\ history'[Len(history')].timestamp = lastCycle'.now
                     /\ ok <=> (task' = "sleeping")]_vars

\* C21 witness: the task was cancelled in the sleep that follows a failed
\* sample, after an earlier cycle had stored an entry, and lifespan is over.
C21_Witness ==
    /\ lifespan = "exited"
    /\ task = "cancelled"
    /\ lastCycle.outcome = "fail"
    /\ history # <<>>

\* The store is what the last cycle left: empty before the first cycle,
\* else the pruned store the cycle found, followed by the cycle's entry when
\* the sample succeeded.
StoreIsPostCycle ==
    IF lastCycle.outcome = "none" THEN history = <<>>
    ELSE LET cut == lastCycle.now - config.max_history_duration
             ok == lastCycle.outcome = "ok"
         IN  /\ ok => /\ Len(history) >= 1
                      /\ history[Len(history)].timestamp = lastCycle.now
             /\ IsWindowOf(IF ok THEN SubSeq(history, 1, Len(history) - 1) ELSE history,
                           lastCycle.pre, cut)

\* C22: every query, however queries and cycles interleave, runs while the
\* sampler is suspended and reads the store as the last whole cycle left it
\* (never a pruned store that still lacks the cycle's entry); its response is
\* the window filter applied to that store.
C22_QueryObservesPostCycleStore ==
    [][(lastQuery' # lastQuery /\ lastQuery'.status = "ok") =>
           /\ task \in Suspended \cup {"finished", "cancelled"}
           /\ StoreIsPostCycle
           /\ IsWindowOf(lastQuery'.result, history, lastQuery'.now - lastQuery'.window)]_vars

\* C22 witness: a query made right after a failed cycle that pruned an
\* entry; the response holds the entries the failed cycle left.
C22_Witness ==
    /\ lastQuery.status = "ok"
    /\ lastQuery.now = clock
    /\ lastCycle.outcome = "fail"
    /\ lastCycle.now = clock
    /\ Len(history) < Len(lastCycle.pre)
    /\ lastQuery.result = history
    /\ history # <<>>

\* C23: once lifespan shutdown has cancelled the sampler task, the task ends
\* and lifespan exit completes without raising, whichever sleep the sampler
\* was suspended in.
C23_ShutdownTerminates ==
    /\ (lifespan = "stopping") ~> (lifespan = "exited" /\ task \in {"finished", "cancelled"})
    /\ [](lifespan # "raised")

\* C23 witness: shutdown interrupted the sleep that follows a successful
\* cycle before its end; the task finished and lifespan exited.
C23_Witness ==
    /\ lifespan = "exited"
    /\ task = "finished"
    /\ lastCycle.outcome = "ok"
    /\ clock < wakeAt

(***************************************************************************)
(* Properties of the notes file, checked under NotesSpec.                  *)
(***************************************************************************)
\* C24: during and after every _write_notes call notes.json holds the
\* complete previous collection or the complete new one, never a partial
\* one; the new one is dumped into the temp file and renamed over notes.json
\* as the last step; when the write fails the temp file is gone, notes.json
\* holds the previous collection and the exception reaches the caller.
C24_AtomicWrite ==
    noteCall.wrote =>
        LET fs == noteCall.fs
            previous == fs[1].json.content
            last == fs[Len(fs)]
        IN  /\ \A i \in 1..Len(fs) :
                   /\ fs[i].json.exists /\ fs[i].json.complete
                   /\ fs[i].json.content \in {previous, notes}
                   /\ (i < Len(fs)) => fs[i].json.content = previous
            /\ ~last.temp.exists
            /\ notes_file = last.json.content
            /\ IF noteCall.raised
               THEN notes_file = previous
               ELSE /\ notes_file = notes
                    /\ fs[Len(fs) - 1].temp = File(notes, TRUE)

\* C24 witness: an update whose rename failed after the temp file had been
\* written completely; notes.json still holds the collection of before.
C24_Witness ==
    /\ noteCall.op = "update_note"
    /\ noteCall.raised
    /\ Len(noteCall.fs) = 4
    /\ noteCall.fs[3].temp = File(notes, TRUE)
    /\ notes_file = noteCall.pre
    /\ notes_file # notes

\* C25: between NotesHandler operations, also after one that raised because
\* the file write failed, the collection stored in notes.json equals the
\* collection in memory.
C25_FileEqualsMemory ==
    notes_file = notes

(***************************************************************************)
(* Further properties of SystemMetricsHistory, checked under StoreSpec.    *)
(***************************************************************************)
\* C26: for every store and every (a, now), cleanup_old_entries(a, now)
\* leaves exactly the sequence that get_entries_since(a, now) returned just
\* before it, and get_entries_since(a, now) just after the cleanup returns
\* the whole store.
C26_PruneAndQueryAgree ==
    /\ (call.op = "cleanup_old_entries" /\ call.queried.same) =>
            history = call.queried.result
    /\ (call.op = "get_entries_since" /\ call.twice) =>
            (call.result = history /\ history = call.pre)

\* C26 witness: a cleanup right after the query with the same arguments,
\* which removed an entry and kept another.
C26_Witness ==
    /\ call.op = "cleanup_old_entries"
    /\ call.queried.same
    /\ Len(history) >= 1
    /\ Len(history) < Len(call.pre)

\* C26 witness of the second half: the query right after a cleanup with the
\* same arguments that had removed an entry; it returns all that is left.
C26_WitnessQueryAfter ==
    /\ call.op = "get_entries_since"
    /\ call.twice
    /\ Len(call.result) >= 1
    /\ nextId > Len(history) + 1

\* C27: every entry of a get_system_metrics_history response has timestamp
\* >= (time of the query) - max_history_duration, also when the store still
\* holds older entries that no cycle has pruned yet.
C27_ResponseInsideMaxWindow ==
    lastQuery.status = "ok" =>
        \A i \in 1..Len(lastQuery.result) :
            lastQuery.result[i].timestamp >= lastQuery.now - config.max_history_duration

\* C27 witness: after the sampler was cancelled the store still holds an
\* entry older than the window; a request for 5000 seconds was answered with
\* the newer entries only.
C27_Witness ==
    /\ lastQuery.status = "ok"
    /\ lastQuery.last_n_seconds = 5000
    /\ lastQuery.now = clock
    /\ task = "finished"
    /\ history # <<>>
    /\ history[1].timestamp < clock - config.max_history_duration
    /\ Len(lastQuery.result) >= 1
    /\ Len(lastQuery.result) < Len(history)

(***************************************************************************)
(* Further properties of ttl_cache, checked under CacheSpec.               *)
(***************************************************************************)
\* C28: a successful get_weather() on a handler h returns data built from
\* h's own location, also when another handler fetched less than the TTL
\* earlier.
C28_OwnLocation ==
    (wrapper.state = "returned" /\ wrapper.value # None) =>
        wrapper.source = wrapper.self

(***************************************************************************)
(* ConcurrentCacheSpec: ttl_cache with callers whose wrapper calls overlap *)
(* on the event loop: a call that misses the cache is suspended in         *)
(* "await func(...)" while other callers run. The wrapped coroutine returns *)
(* the number of its invocation, returns None, or raises.                  *)
(***************************************************************************)
Callers == {1, 2}
NoWrapperCall == [state |-> "idle", now |-> None, n |-> None, value |-> None]

ConcurrentCacheInit ==
    /\ history = <<>>
    /\ nextId = 1
    /\ call = NoCall
    /\ ServerUnused
    /\ cache_data = NoCache
    /\ minutes \in TtlMinutes
    /\ func_calls = 0
    /\ wrapper = NoWrapper
    /\ lastFetch = NoFetch
    /\ calls = [c \in Callers |-> NoWrapperCall]
    /\ NotesUnused
    /\ ContainerUnused

\* wrapper, lines 31-47, for one caller: read the time, return the cached
\* result if the cache is valid, else start awaiting func.
ConcurrentWrapperCall ==
    \E c \in Callers :
        LET now == clock
            hit == cache_valid(cache_data, now, minutes)
        IN  /\ calls[c].state # "fetching"
            /\ hit \/ func_calls < MaxFuncCalls
            /\ calls' = [calls EXCEPT ![c] =
                             [state |-> IF hit THEN "returned" ELSE "fetching",
                              now |-> now,
                              n |-> IF hit THEN None ELSE func_calls + 1,
                              value |-> IF hit THEN cache_data.result ELSE None]]
            /\ func_calls' = IF hit THEN func_calls ELSE func_calls + 1
            /\ UNCHANGED <<storeVars, serverVars, cache_data, minutes, wrapper, lastFetch,
                           notesVars, containerVars>>

\* wrapper, lines 47-53, for one caller: its func returned; store the result
\* and the time the caller read at the start of its call.
ConcurrentFuncReturns ==
    \E c \in Callers :
        \E result \in {calls[c].n, None} :
            /\ calls[c].state = "fetching"
            /\ cache_data' = [result |-> result, timestamp |-> calls[c].now]
            /\ calls' = [calls EXCEPT ![c].state = "returned", ![c].value = result]
            /\ UNCHANGED <<storeVars, serverVars, minutes, func_calls, wrapper, lastFetch,
                           notesVars, containerVars>>

\* wrapper, line 47, for one caller: its func raised.
ConcurrentFuncRaises ==
    \E c \in Callers :
        /\ calls[c].state = "fetching"
        /\ calls' = [calls EXCEPT ![c].state = "raised"]
        /\ UNCHANGED <<storeVars, serverVars, cache_data, minutes, func_calls, wrapper,
                       lastFetch, notesVars, containerVars>>

ConcurrentCacheNext ==
    CacheTick \/ ConcurrentWrapperCall \/ ConcurrentFuncReturns \/ ConcurrentFuncRaises

ConcurrentCacheSpec == ConcurrentCacheInit /\ [][ConcurrentCacheNext]_vars

\* C29: with concurrent callers, a call that arrives while another call's
\* fetch is in flight does not start a second fetch (at most one invocation
\* of the wrapped function is in flight), and the cached timestamp never
\* moves backwards.
C29_SingleFlight ==
    /\ [](Cardinality({c \in Callers : calls[c].state = "fetching"}) <= 1)
    /\ [][cache_data'.timestamp >= cache_data.timestamp]_vars

(***************************************************************************)
(* Further properties of ContainerHandler, checked under ContainerSpec.    *)
(***************************************************************************)
\* C30: whenever update_container returns a response that is not OK, the
\* container it was called for still exists under its name: no failure of
\* get, pull, stop, remove or run leaves the old container removed without
\* a replacement.
C30_ContainerSurvivesFailedUpdate ==
    LET name == containers_get(contCall.pre, contCall.container_id)
    IN  (contCall.op = "update" /\ contCall.code # "OK" /\ name # None) =>
            containers[name] # NoContainer

====
